---- MODULE Spec2Model ----
(***************************************************************************)
(* Director bot (src/main.py): one inbound Telegram text message is        *)
(* classified, forwarded to the calendar or the research webhook, and the  *)
(* downstream answer is turned into a reply.  Strings are sequences of     *)
(* one-character strings, so that lower-casing, trimming, prefix tests,    *)
(* substring search and splitting are computed as Python computes them.    *)
(***************************************************************************)
EXTENDS Integers, Sequences, FiniteSets, TLC

VARIABLES pc, message_text, intent, calls, resps, replies, raised,
          propagated, now, details, matched_event

vars == <<pc, message_text, intent, calls, resps, replies, raised,
          propagated, now, details, matched_event>>

(***************************************************************************)
(* Bounds of the model.                                                    *)
(***************************************************************************)
\* longest event list the calendar service returns
MaxEvents == 2
\* days (0..MaxDay) the clock may show when a message is handled
MaxDay == 1

(***************************************************************************)
(* Python str primitives.                                                  *)
(***************************************************************************)
Uppers == <<"A","B","C","D","E","F","G","H","I","J","K","L","M",
            "N","O","P","Q","R","S","T","U","V","W","X","Y","Z">>

Lowers == <<"a","b","c","d","e","f","g","h","i","j","k","l","m",
            "n","o","p","q","r","s","t","u","v","w","x","y","z">>

Digits == <<"0","1","2","3","4","5","6","7","8","9">>

Whitespace == {" ", "\t", "\n"}

MinOf(S) == CHOOSE x \in S : \A y \in S : x <= y

MaxOf(S) == CHOOSE x \in S : \A y \in S : y <= x

\* str.lower() on one character
LowerChar(c) ==
    IF \E i \in 1..Len(Uppers) : Uppers[i] = c
    THEN Lowers[CHOOSE i \in 1..Len(Uppers) : Uppers[i] = c]
    ELSE c

\* str.lower()
Lower(s) == [i \in 1..Len(s) |-> LowerChar(s[i])]

\* str.startswith(p)
StartsWith(s, p) == Len(s) >= Len(p) /\ SubSeq(s, 1, Len(p)) = p

\* s[k:]  (k counted from 0, as in Python)
From(s, k) == SubSeq(s, k + 1, Len(s))

\* str.find(m) + 1: the first position where m occurs in s, 0 when it does not
Find(s, m) ==
    LET hits == {i \in 1..(Len(s) - Len(m) + 1) : SubSeq(s, i, i + Len(m) - 1) = m}
    IN IF hits = {} THEN 0 ELSE MinOf(hits)

\* m in s
Contains(s, m) == Find(s, m) # 0

\* str.lstrip(chars)
LStripChars(s, chars) ==
    LET keep == {i \in 1..Len(s) : s[i] \notin chars}
    IN IF keep = {} THEN <<>> ELSE SubSeq(s, MinOf(keep), Len(s))

\* str.rstrip(chars)
RStripChars(s, chars) ==
    LET keep == {i \in 1..Len(s) : s[i] \notin chars}
    IN IF keep = {} THEN <<>> ELSE SubSeq(s, 1, MaxOf(keep))

\* str.strip()
Strip(s) == RStripChars(LStripChars(s, Whitespace), Whitespace)

\* str.split(m, 1): one part when m does not occur, else the parts around
\* its first occurrence
Split1(s, m) ==
    LET i == Find(s, m)
    IN IF i = 0 THEN <<s>>
       ELSE <<SubSeq(s, 1, i - 1), SubSeq(s, i + Len(m), Len(s))>>

IsDigit(c) == \E i \in 1..Len(Digits) : Digits[i] = c

\* int() of one decimal digit
DigitVal(c) == (CHOOSE i \in 1..Len(Digits) : Digits[i] = c) - 1

(***************************************************************************)
(* Literals of src/main.py.                                                *)
(***************************************************************************)
kw_delete == <<"d","e","l","e","t","e"," ">>

kw_cancel == <<"c","a","n","c","e","l"," ">>

kw_remove == <<"r","e","m","o","v","e"," ">>

kw_id == <<"i","d",":">>

kw_list_events == <<"l","i","s","t"," ","e","v","e","n","t","s">>

kw_research_market == <<"r","e","s","e","a","r","c","h"," ","m","a","r","k","e","t",":">>

kw_research_recipe == <<"r","e","s","e","a","r","c","h"," ","r","e","c","i","p","e",":">>

kw_research_holiday == <<"r","e","s","e","a","r","c","h"," ","h","o","l","i","d","a","y",":">>

kw_research_restaurant == <<"r","e","s","e","a","r","c","h"," ","r","e","s","t","a","u","r","a","n","t",":">>

kw_tomorrow_at == <<"t","o","m","o","r","r","o","w"," ","a","t"," ">>

kw_pm == <<"p","m">>

kw_am == <<"a","m">>

location_markers == <<<<"v","e","n","u","e"," ","a","t"," ">>,
                     <<"l","o","c","a","t","i","o","n"," ","a","t"," ">>,
                     <<" ","a","t"," ">>>>

(***************************************************************************)
(* Inbound message texts.                                                  *)
(***************************************************************************)
\* messages that start with one of the three delete synonyms
DeleteTexts ==
    { <<"d","e","l","e","t","e"," ","i","d",":","e","1">>,
      \* 'delete id:e1'
      <<"C","a","n","c","e","l"," ","i","d",":"," ","e","2">>,
      \* 'Cancel id: e2'
      <<"r","e","m","o","v","e"," ","I","D",":","e","1">>,
      \* 'remove ID:e1'
      <<"D","E","L","E","T","E"," ","I","d",":"," ","e","2">>,
      \* 'DELETE Id: e2'
      <<"d","e","l","e","t","e"," ","i","d",":">>,
      \* 'delete id:'
      <<"c","a","n","c","e","l"," ","l","u","n","c","h">>,
      \* 'cancel lunch'
      <<"R","e","m","o","v","e"," ","L","u","n">>,
      \* 'Remove Lun'
      <<"d","e","l","e","t","e"," ","g","y","m">>,
      \* 'delete gym'
      <<"c","a","n","c","e","l"," ","z","z">>,
      \* 'cancel zz'
      <<" ","d","e","l","e","t","e"," "," ","l","u","n","c","h"," ">> }
      \* ' delete  lunch '

\* the list command, in several letter cases
ListTexts ==
    { <<"l","i","s","t"," ","e","v","e","n","t","s">>,
      \* 'list events'
      <<"L","I","S","T"," ","E","V","E","N","T","S">>,
      \* 'LIST EVENTS'
      <<" ","L","i","s","t"," ","E","v","e","n","t","s"," ">> }
      \* ' List Events '

\* one message for each research prefix
ResearchTexts ==
    { <<"r","e","s","e","a","r","c","h"," ","m","a","r","k","e","t",":","c","a","f","e">>,
      \* 'research market:cafe'
      <<"R","e","s","e","a","r","c","h"," ","R","e","c","i","p","e",":"," ","p","a","s","t","a">>,
      \* 'Research Recipe: pasta'
      <<"r","e","s","e","a","r","c","h"," ","h","o","l","i","d","a","y",":"," ","B","a","l","i"," ">>,
      \* 'research holiday: Bali '
      <<"R","E","S","E","A","R","C","H"," ","R","E","S","T","A","U","R","A","N","T",":","x">> }
      \* 'RESEARCH RESTAURANT:x'

\* free text of an event, with and without a location marker
EventBases ==
    { <<"L","u","n","c","h">>,
      \* 'Lunch'
      <<"L","u","n","c","h"," ","a","t"," ","C","a","f","e">>,
      \* 'Lunch at Cafe'
      <<"L","u","n","c","h"," ","A","T"," ","C","a","f","e">>,
      \* 'Lunch AT Cafe'
      <<"L","u","n","c","h",","," ","a","t"," ","C","a","f","e">>,
      \* 'Lunch, at Cafe'
      <<"L","u","n","c","h"," ","v","e","n","u","e"," ","a","t"," ","C","a","f","e">>,
      \* 'Lunch venue at Cafe'
      <<"L","u","n","c","h"," ","V","e","n","u","e"," ","a","t"," ","C","a","f","e">>,
      \* 'Lunch Venue at Cafe'
      <<"L","u","n","c","h"," ","l","o","c","a","t","i","o","n"," ","a","t"," ","C","a","f","e">>,
      \* 'Lunch location at Cafe'
      <<"L","u","n","c","h"," ","A","t"," ","h","o","m","e"," ","a","t"," ","C","a","f","e">>,
      \* 'Lunch At home at Cafe'
      <<"l","i","s","t"," ","e","v","e","n","t","s"," ","n","o","w">>,
      \* 'list events now'
      <<"d","e","l","e","t","e">>,
      \* 'delete'
      <<"r","e","s","e","a","r","c","h"," ","h","o","t","e","l",":"," ","x">> }
      \* 'research hotel: x'

\* what may follow the free text: nothing, or a time phrase
TimePhrases ==
    { <<>>,
      \* ''
      <<" ","t","o","m","o","r","r","o","w"," ","a","t"," ","3","p","m">>,
      \* ' tomorrow at 3pm'
      <<" ","t","o","m","o","r","r","o","w"," ","a","t"," ","1","2","a","m">>,
      \* ' tomorrow at 12am'
      <<" ","t","o","m","o","r","r","o","w"," ","a","t"," ","1","2","p","m">>,
      \* ' tomorrow at 12pm'
      <<" ","t","o","m","o","r","r","o","w"," ","a","t"," ","9",":","3","0"," ","a","m">>,
      \* ' tomorrow at 9:30 am'
      <<" ","t","o","m","o","r","r","o","w"," ","a","t"," ","2","5">>,
      \* ' tomorrow at 25'
      <<" ","t","o","m","o","r","r","o","w"," ","a","t"," ","1","3","p","m">>,
      \* ' tomorrow at 13pm'
      <<" ","t","o","m","o","r","r","o","w"," ","a","t"," ","9",":","7","5">>,
      \* ' tomorrow at 9:75'
      <<" ","T","o","m","o","r","r","o","w"," ","A","t"," ","7">>,
      \* ' Tomorrow At 7'
      <<" ","t","o","m","o","r","r","o","w"," ","a","t"," ","0">>,
      \* ' tomorrow at 0'
      <<" ","t","o","m","o","r","r","o","w"," ","a","t"," ","2","3",":","5","9">>,
      \* ' tomorrow at 23:59'
      <<" ","t","o","m","o","r","r","o","w"," ","a","t"," ","1","1"," ","p","m">>,
      \* ' tomorrow at 11 pm'
      <<" ","t","o","m","o","r","r","o","w"," ","a","t"," ","3",":","5","p","m">>,
      \* ' tomorrow at 3:5pm'
      <<" ","t","o","m","o","r","r","o","w"," ","a","t"," ","n","o","o","n">> }
      \* ' tomorrow at noon'

\* update.message.text of the messages the bot is sent
Texts ==
    DeleteTexts \cup ListTexts \cup ResearchTexts
        \cup {b \o p : b \in EventBases, p \in TimePhrases}

(***************************************************************************)
(* Values the downstream services answer with.                             *)
(***************************************************************************)
id_e1 == <<"e","1">>

id_e2 == <<"e","2">>

id_e3 == <<"e","3">>

sum_Lunch == <<"L","u","n","c","h">>

sum_lunch == <<"l","u","n","c","h">>

sum_Gym == <<"G","y","m">>

body_a == <<"o","o","p","s">>

body_b == <<"{","}">>

\* the events the calendar service may list: a start is given under the key
\* 'dateTime' or 'date' (t: the instant, in seconds) or under neither
Events ==
    { [id |-> id_e1, summary |-> sum_Lunch, start |-> [key |-> "dateTime", t |-> 100000]],
      [id |-> id_e2, summary |-> sum_lunch, start |-> [key |-> "date", t |-> 172800]],
      [id |-> id_e3, summary |-> sum_Gym, start |-> [key |-> "none", t |-> 0]] }

EventLists == UNION {[1..n -> Events] : n \in 0..MaxEvents}

\* A response of requests.post: net = FALSE when the call raises instead of
\* answering; json = "invalid" when response.json() raises; status is the
\* 'status' member of the JSON object ("absent": no such member); has_events
\* tells whether the object has an 'events' member.
Response(net, status_code, text, json, status, has_events, events) ==
    [net |-> net, status_code |-> status_code, text |-> text, json |-> json,
     status |-> status, has_events |-> has_events, events |-> events]

Unreachable == Response(FALSE, 0, <<>>, "invalid", "absent", FALSE, <<>>)

HttpResponses ==
    { Response(TRUE, c, b, "invalid", "absent", FALSE, <<>>) :
        c \in {404, 500}, b \in {body_a, body_b} }

StatusResponses ==
    { Response(TRUE, 200, body_b, "object", s, FALSE, <<>>) :
        s \in {"success", "error", "absent"} }

InvalidJson == Response(TRUE, 200, body_a, "invalid", "absent", FALSE, <<>>)

\* what the research webhook and the calendar's delete_event may answer
ServiceResponses == {Unreachable, InvalidJson} \cup HttpResponses \cup StatusResponses

\* what the calendar's list_events may answer
ListResponses ==
    {Unreachable, InvalidJson} \cup HttpResponses
        \cup {Response(TRUE, 200, body_b, "object", "absent", FALSE, <<>>)}
        \cup {Response(TRUE, 200, body_b, "object", "success", TRUE, l) : l \in EventLists}

(***************************************************************************)
(* Requests to the downstream services (lines 71-75, 82-89, 186-204,       *)
(* 216-251), as records of one shape.                                      *)
(***************************************************************************)
NoRequest ==
    [svc |-> "none", action |-> "none", eventId |-> <<>>, title |-> <<>>,
     description |-> <<>>, location |-> <<>>,
     startDate |-> [valid |-> FALSE, t |-> 0], endDate |-> [valid |-> FALSE, t |-> 0],
     key |-> "none", query |-> <<>>]

ListEventsRequest == [NoRequest EXCEPT !.svc = "calendar", !.action = "list_events"]

DeleteEventRequest(event_id) ==
    [NoRequest EXCEPT !.svc = "calendar", !.action = "delete_event", !.eventId = event_id]

AddEventRequest(title, location, start_time, end_time) ==
    [NoRequest EXCEPT !.svc = "calendar", !.action = "add_event", !.title = title,
                      !.description = title, !.location = location,
                      !.startDate = [valid |-> TRUE, t |-> start_time],
                      !.endDate = [valid |-> TRUE, t |-> end_time]]

ResearchRequest(research_type, key, query) ==
    [NoRequest EXCEPT !.svc = "research", !.action = research_type, !.key = key,
                      !.query = query]

(***************************************************************************)
(* handle_research_request (lines 207-253).                                *)
(***************************************************************************)
handle_research_request(text) ==
    LET text_lower == Lower(text)
    IN IF StartsWith(text_lower, kw_research_market)
       THEN ResearchRequest("market_research", "business_idea",
                            Strip(From(text, Len(kw_research_market))))
       ELSE IF StartsWith(text_lower, kw_research_recipe)
       THEN ResearchRequest("recipe_research", "recipe_request",
                            Strip(From(text, Len(kw_research_recipe))))
       ELSE IF StartsWith(text_lower, kw_research_holiday)
       THEN ResearchRequest("holiday_itinerary", "destination",
                            Strip(From(text, Len(kw_research_holiday))))
       ELSE IF StartsWith(text_lower, kw_research_restaurant)
       THEN ResearchRequest("restaurant_research", "occasion",
                            Strip(From(text, Len(kw_research_restaurant))))
       ELSE NoRequest

(***************************************************************************)
(* The command tests of parse_calendar_message (lines 134-150).            *)
(***************************************************************************)
delete_prefixes == <<kw_delete, kw_cancel, kw_remove>>

\* command.startswith('id:') (line 142)
IsIdCommand(command) == StartsWith(command, kw_id)

\* kind: which branch of parse_calendar_message the text takes; arg: the
\* event id (line 143) or the title (line 148)
CalendarCommand(message) ==
    LET text == Strip(message)
        text_lower == Lower(text)
        hit == {k \in 1..Len(delete_prefixes) : StartsWith(text_lower, delete_prefixes[k])}
    IN IF hit # {}
       THEN LET prefix == delete_prefixes[MinOf(hit)]
                command == Strip(From(text, Len(prefix)))
            IN IF IsIdCommand(command)
               THEN [kind |-> "delete_id", arg |-> Strip(From(command, Len(kw_id)))]
               ELSE [kind |-> "delete_title", arg |-> command]
       ELSE IF text_lower = kw_list_events
       THEN [kind |-> "list", arg |-> <<>>]
       ELSE [kind |-> "create", arg |-> <<>>]

(***************************************************************************)
(* extract_event_details (lines 116-130).  raised names the exception the  *)
(* call ends with ("none": it returns title and location).                 *)
(***************************************************************************)
extract_event_details(text) ==
    LET text_lower == Lower(text)
        hit == {k \in 1..Len(location_markers) : Contains(text_lower, location_markers[k])}
    IN IF hit = {}
       THEN [raised |-> "none", title |-> text, location |-> <<>>]
       ELSE LET marker == location_markers[MinOf(hit)]
                parts == Split1(text, marker)
            IN IF Len(parts) < 2
               THEN [raised |-> "IndexError", title |-> <<>>, location |-> <<>>]
               ELSE [raised |-> "none",
                     title |-> RStripChars(Strip(parts[1]), {","}),
                     location |-> Strip(parts[2])]

(***************************************************************************)
(* Time resolution of parse_calendar_message (lines 165-184).  Instants    *)
(* are seconds of Singapore wall-clock time (the zone has no clock         *)
(* changes), so a day is OneDay seconds and day d starts at d * OneDay.    *)
(***************************************************************************)
OneDay == 86400

OneHour == 3600

DefaultHour == 14

\* s[i], or "" past the end of s
At(s, i) == IF i >= 1 /\ i <= Len(s) THEN s[i] ELSE ""

\* re.search(r'tomorrow at (\d{1,2})(?::(\d{2}))?\s*(pm|am)?', text_lower):
\* the leftmost place where 'tomorrow at ' is followed by a digit; the hour
\* group takes a second digit when there is one; the minute group needs a
\* colon and two digits; the period may follow any whitespace.
time_match(s) ==
    LET n == Len(kw_tomorrow_at)
        starts == {i \in 1..(Len(s) - n) :
                     SubSeq(s, i, i + n - 1) = kw_tomorrow_at /\ IsDigit(s[i + n])}
    IN IF starts = {}
       THEN [found |-> FALSE, hour |-> 0, minute |-> 0, period |-> "none"]
       ELSE LET p == MinOf(starts) + n
                two == IsDigit(At(s, p + 1))
                q == IF two THEN p + 2 ELSE p + 1
                has_minute == At(s, q) = ":" /\ IsDigit(At(s, q + 1))
                                 /\ IsDigit(At(s, q + 2))
                r == IF has_minute THEN q + 3 ELSE q
                rest == {j \in r..Len(s) : s[j] \notin Whitespace}
                w == IF rest = {} THEN Len(s) + 1 ELSE MinOf(rest)
                word == IF w + 1 <= Len(s) THEN SubSeq(s, w, w + 1) ELSE <<>>
            IN [found |-> TRUE,
                hour |-> IF two THEN 10 * DigitVal(s[p]) + DigitVal(s[p + 1])
                         ELSE DigitVal(s[p]),
                minute |-> IF has_minute
                           THEN 10 * DigitVal(s[q + 1]) + DigitVal(s[q + 2])
                           ELSE 0,
                period |-> IF word = kw_pm THEN "pm"
                           ELSE IF word = kw_am THEN "am" ELSE "none"]

\* lines 178-181
convert_hour(hour, period) ==
    IF period = "pm" /\ hour # 12 THEN hour + 12
    ELSE IF period = "am" /\ hour = 12 THEN 0
    ELSE hour

\* datetime.replace(hour=, minute=, second=0, microsecond=0) accepts these only
ValidTime(hour, minute) == hour \in 0..23 /\ minute \in 0..59

\* datetime.replace(hour=hour, minute=minute, second=0, microsecond=0)
Replace(t, hour, minute) == (t \div OneDay) * OneDay + hour * OneHour + minute * 60

\* lines 166-184: start_time and end_time, or the ValueError of replace
resolve_time(text_lower, today) ==
    LET tomorrow == today + OneDay
        time_m == time_match(text_lower)
        hour == convert_hour(time_m.hour, time_m.period)
        start_time == IF time_m.found THEN Replace(tomorrow, hour, time_m.minute)
                      ELSE Replace(tomorrow, DefaultHour, 0)
    IN IF time_m.found /\ ~ValidTime(hour, time_m.minute)
       THEN [raised |-> "ValueError", start_time |-> 0, end_time |-> 0]
       ELSE [raised |-> "none", start_time |-> start_time,
             end_time |-> start_time + OneHour]

\* the values datetime.now(SGT) takes
Nows == {d * OneDay + s : d \in 0..MaxDay, s \in {0, DefaultHour * OneHour, OneDay - 1}}

(***************************************************************************)
(* Time strings and format_event_time (lines 61-67).  A time string is     *)
(* valid (datetime.fromisoformat reads the instant t from it) or not.      *)
(***************************************************************************)
\* datetime.isoformat()
isoformat(t) == [valid |-> TRUE, t |-> t]

\* e['start'].get('dateTime', e['start'].get('date', 'N/A'))
start_string(e) ==
    IF e.start.key \in {"dateTime", "date"} THEN isoformat(e.start.t)
    ELSE [valid |-> FALSE, t |-> 0]

\* '%Y-%m-%d %I:%M %p' shows the minute of the instant; a string that does
\* not parse is returned as it is
format_event_time(time_str) ==
    IF time_str.valid THEN [shown |-> "sgt", minute |-> time_str.t \div 60]
    ELSE [shown |-> "raw", minute |-> 0]

(***************************************************************************)
(* Replies: the fixed template and the values put into it.                 *)
(***************************************************************************)
Reply(tmpl, strs, items, times) ==
    [tmpl |-> tmpl, strs |-> strs, items |-> items, times |-> times]

NoReply == Reply("none", <<>>, <<>>, <<>>)

\* the ID / Title / Time lines of one event (lines 104-105, 155-157)
event_lines(e) ==
    [id |-> e.id, title |-> e.summary, time |-> format_event_time(start_string(e))]

Returns(reply) == [raised |-> "none", reply |-> reply]

Raises(exception) == [raised |-> exception, reply |-> NoReply]

(***************************************************************************)
(* Calendar functions.                                                     *)
(***************************************************************************)
\* list_events (lines 76-78): the events, None, or the exception
list_events(response) ==
    IF ~response.net
    THEN [raised |-> "ConnectionError", none |-> TRUE, events |-> <<>>]
    ELSE IF response.status_code # 200
    THEN [raised |-> "none", none |-> TRUE, events |-> <<>>]
    ELSE IF response.json = "invalid"
    THEN [raised |-> "JSONDecodeError", none |-> TRUE, events |-> <<>>]
    ELSE IF ~response.has_events
    THEN [raised |-> "KeyError", none |-> TRUE, events |-> <<>>]
    ELSE [raised |-> "none", none |-> FALSE, events |-> response.events]

\* delete_event_by_id (line 90) and the test 'result and result.get('status')
\* == 'success'' of its callers (lines 112, 145)
delete_event_by_id(response) ==
    IF ~response.net THEN [raised |-> "ConnectionError", success |-> FALSE]
    ELSE IF response.status_code # 200 THEN [raised |-> "none", success |-> FALSE]
    ELSE IF response.json = "invalid" THEN [raised |-> "JSONDecodeError", success |-> FALSE]
    ELSE [raised |-> "none", success |-> response.status = "success"]

\* line 98 without the two lower(): the title is searched as it was typed
matching_events_case_sensitive(events, title) ==
    SelectSeq(events, LAMBDA e : Contains(e.summary, title))

\* line 98
matching_events(events, title) ==
    SelectSeq(events, LAMBDA e : Contains(Lower(e.summary), Lower(title)))

\* line 102 with the comparison off by one
several_matches_over_two(matching) == Len(matching) > 2

\* line 102
several_matches(matching) == Len(matching) > 1

NoEvent == [id |-> <<>>, summary |-> <<>>, start |-> [key |-> "none", t |-> 0]]

\* find_and_delete_event_by_title up to its delete call (lines 94-110):
\* delete tells whether delete_event_by_id is called, for which event
find_event_by_title(response, title) ==
    LET listed == list_events(response)
        matching == matching_events(listed.events, title)
    IN IF listed.raised # "none"
       THEN [raised |-> listed.raised, reply |-> NoReply, delete |-> FALSE, event |-> NoEvent]
       ELSE IF listed.none \/ listed.events = <<>>
       THEN [raised |-> "none", reply |-> Reply("No events found", <<>>, <<>>, <<>>),
             delete |-> FALSE, event |-> NoEvent]
       ELSE IF matching = <<>>
       THEN [raised |-> "none", reply |-> Reply("No matching events found", <<>>, <<>>, <<>>),
             delete |-> FALSE, event |-> NoEvent]
       ELSE IF several_matches(matching)
       THEN [raised |-> "none",
             reply |-> Reply("Multiple matches found. Please delete by ID:", <<>>,
                             [i \in 1..Len(matching) |-> event_lines(matching[i])], <<>>),
             delete |-> FALSE, event |-> NoEvent]
       ELSE [raised |-> "none", reply |-> NoReply, delete |-> TRUE, event |-> matching[1]]

\* lines 111-114
deleted_by_title(response, event) ==
    LET result == delete_event_by_id(response)
    IN IF result.raised # "none" THEN Raises(result.raised)
       ELSE IF result.success
       THEN Returns(Reply("Deleted event: {summary}", <<event.summary>>, <<>>, <<>>))
       ELSE Returns(Reply("Failed to delete event", <<>>, <<>>, <<>>))

\* lines 144-147
deleted_by_id(response, event_id) ==
    LET result == delete_event_by_id(response)
    IN IF result.raised # "none" THEN Raises(result.raised)
       ELSE IF result.success
       THEN Returns(Reply("Event deleted successfully (ID: {event_id})", <<event_id>>, <<>>, <<>>))
       ELSE Returns(Reply("X Failed to delete event", <<>>, <<>>, <<>>))

\* lines 151-160
listed_events(response) ==
    LET listed == list_events(response)
    IN IF listed.raised # "none" THEN Raises(listed.raised)
       ELSE IF listed.none \/ listed.events = <<>>
       THEN Returns(Reply("No upcoming events found", <<>>, <<>>, <<>>))
       ELSE Returns(Reply("Upcoming events:", <<>>,
                          [i \in 1..Len(listed.events) |-> event_lines(listed.events[i])],
                          <<>>))

(***************************************************************************)
(* The reply to each downstream answer in handle_message.                  *)
(***************************************************************************)
\* format_research_response (lines 255-317): the template of the research
\* type, filled from the result
format_research_response(research_type) ==
    IF research_type \in {"holiday_itinerary", "recipe_research",
                          "restaurant_research", "market_research"}
    THEN Reply(research_type, <<>>, <<>>, <<>>)
    ELSE Reply("Could not format research results. Please try again.", <<>>, <<>>, <<>>)

\* lines 370-382
research_reply(response, research_request) ==
    IF ~response.net THEN Raises("ConnectionError")
    ELSE IF response.status_code # 200
    THEN Returns(Reply("Failed to get research results. Please try again.", <<>>, <<>>, <<>>))
    ELSE IF response.json = "invalid" THEN Raises("JSONDecodeError")
    ELSE IF response.status = "success"
    THEN Returns(format_research_response(research_request.action))
    ELSE Returns(Reply("Research request failed. Please try again.", <<>>, <<>>, <<>>))

\* lines 415-417 without the 'Error:' line
schedule_failed_without_body(response) ==
    Reply("Failed to schedule event. Please try again. Error: {response.text}",
          <<>>, <<>>, <<>>)

\* lines 415-418
schedule_failed(response) ==
    Reply("Failed to schedule event. Please try again. Error: {response.text}",
          <<response.text>>, <<>>, <<>>)

\* lines 400-419
schedule_reply(response, request) ==
    IF ~response.net THEN Raises("ConnectionError")
    ELSE IF response.status_code = 200
    THEN Returns(Reply("Event scheduled!",
                       <<request.title>>
                           \o (IF request.location # <<>> THEN <<request.location>> ELSE <<>>),
                       <<>>,
                       <<format_event_time(request.startDate),
                         format_event_time(request.endDate)>>))
    ELSE Returns(schedule_failed(response))

(***************************************************************************)
(* State.  pc is the place of the handling of the current message:         *)
(*   idle            no message is being handled                           *)
(*   dispatch        handle_message has read the text (line 356)           *)
(*   research_wait, delete_id_wait, title_list_wait, title_delete_wait,    *)
(*   list_wait, create_wait                                                *)
(*                   inside the requests.post named by the last of calls   *)
(*   except          in the except clause of handle_message (line 421)     *)
(*   error_handler   the exception left handle_message; the application    *)
(*                   calls the registered error_handler (line 445)         *)
(*   done            the handling is over                                  *)
(* calls: the requests posted downstream; resps: their responses;          *)
(* replies: the reply attempts (via: the function that made it, sent:      *)
(* whether reply_text returned); raised: the exception caught at line 421; *)
(* propagated: an exception left handle_message; now: datetime.now(SGT) of *)
(* line 166; details: the result of extract_event_details; matched_event:  *)
(* the event find_and_delete_event_by_title deletes.                       *)
(***************************************************************************)
NoDetails == [raised |-> "none", title |-> <<>>, location |-> <<>>]

Init ==
    /\ pc = "idle"
    /\ message_text = <<>>
    /\ intent = "none"
    /\ calls = <<>>
    /\ resps = <<>>
    /\ replies = <<>>
    /\ raised = "none"
    /\ propagated = FALSE
    /\ now = 0
    /\ details = NoDetails
    /\ matched_event = NoEvent

\* send_telegram_response (lines 50-58): one reply_text, whose exception is
\* logged and swallowed
send_telegram_response(message, sent) ==
    Append(replies, [via |-> "send_telegram_response", msg |-> message, sent |-> sent])

\* the end of a branch of handle_message: the reply is sent (and the
\* handler returns), or the exception reaches line 421
Conclude(outcome, sent) ==
    IF outcome.raised # "none"
    THEN /\ raised' = outcome.raised
         /\ pc' = "except"
         /\ UNCHANGED replies
    ELSE /\ replies' = send_telegram_response(outcome.reply, sent)
         /\ pc' = "done"
         /\ UNCHANGED raised

\* line 356
ReceiveMessage(text) ==
    /\ pc = "idle"
    /\ message_text' = Strip(text)
    /\ pc' = "dispatch"
    /\ UNCHANGED <<intent, calls, resps, replies, raised, propagated, now, details,
                   matched_event>>

\* lines 360-368
ResearchPost ==
    /\ pc = "dispatch"
    /\ handle_research_request(message_text) # NoRequest
    /\ intent' = "research"
    /\ calls' = Append(calls, handle_research_request(message_text))
    /\ pc' = "research_wait"
    /\ UNCHANGED <<message_text, resps, replies, raised, propagated, now, details,
                   matched_event>>

\* lines 370-382
ResearchReply(response, sent) ==
    /\ pc = "research_wait"
    /\ resps' = Append(resps, response)
    /\ Conclude(research_reply(response, calls[Len(calls)]), sent)
    /\ UNCHANGED <<message_text, intent, calls, propagated, now, details, matched_event>>

\* lines 387, 138-144
DeleteByIdPost ==
    /\ pc = "dispatch"
    /\ handle_research_request(message_text) = NoRequest
    /\ CalendarCommand(message_text).kind = "delete_id"
    /\ intent' = "delete_id"
    /\ calls' = Append(calls, DeleteEventRequest(CalendarCommand(message_text).arg))
    /\ pc' = "delete_id_wait"
    /\ UNCHANGED <<message_text, resps, replies, raised, propagated, now, details,
                   matched_event>>

\* lines 145-147, 389-391
DeleteByIdReply(response, sent) ==
    /\ pc = "delete_id_wait"
    /\ resps' = Append(resps, response)
    /\ Conclude(deleted_by_id(response, calls[Len(calls)].eventId), sent)
    /\ UNCHANGED <<message_text, intent, calls, propagated, now, details, matched_event>>

\* lines 387, 148, 94, 71-75
DeleteByTitleList ==
    /\ pc = "dispatch"
    /\ handle_research_request(message_text) = NoRequest
    /\ CalendarCommand(message_text).kind = "delete_title"
    /\ intent' = "delete_title"
    /\ calls' = Append(calls, ListEventsRequest)
    /\ pc' = "title_list_wait"
    /\ UNCHANGED <<message_text, resps, replies, raised, propagated, now, details,
                   matched_event>>

\* lines 76-78, 95-111, 82-89: the listing is searched; the one match is
\* deleted, or the search ends with a reply or an exception
DeleteByTitleMatch(response, sent) ==
    /\ pc = "title_list_wait"
    /\ resps' = Append(resps, response)
    /\ LET found == find_event_by_title(response, CalendarCommand(message_text).arg)
       IN IF found.delete
          THEN /\ matched_event' = found.event
               /\ calls' = Append(calls, DeleteEventRequest(found.event.id))
               /\ pc' = "title_delete_wait"
               /\ UNCHANGED <<replies, raised>>
          ELSE /\ Conclude([raised |-> found.raised, reply |-> found.reply], sent)
               /\ UNCHANGED <<calls, matched_event>>
    /\ UNCHANGED <<message_text, intent, propagated, now, details>>

\* lines 90, 112-114, 148, 389-391
DeleteByTitleReply(response, sent) ==
    /\ pc = "title_delete_wait"
    /\ resps' = Append(resps, response)
    /\ Conclude(deleted_by_title(response, matched_event), sent)
    /\ UNCHANGED <<message_text, intent, calls, propagated, now, details, matched_event>>

\* lines 387, 150-151, 71-75
ListEventsPost ==
    /\ pc = "dispatch"
    /\ handle_research_request(message_text) = NoRequest
    /\ CalendarCommand(message_text).kind = "list"
    /\ intent' = "list"
    /\ calls' = Append(calls, ListEventsRequest)
    /\ pc' = "list_wait"
    /\ UNCHANGED <<message_text, resps, replies, raised, propagated, now, details,
                   matched_event>>

\* lines 76-78, 152-160, 389-391
ListEventsReply(response, sent) ==
    /\ pc = "list_wait"
    /\ resps' = Append(resps, response)
    /\ Conclude(listed_events(response), sent)
    /\ UNCHANGED <<message_text, intent, calls, propagated, now, details, matched_event>>

\* lines 387, 163-204, 394-398: the details are extracted and the time is
\* resolved at the clock's value today; add_event is posted unless one of
\* the two raises
CreatePost(today) ==
    /\ pc = "dispatch"
    /\ handle_research_request(message_text) = NoRequest
    /\ CalendarCommand(message_text).kind = "create"
    /\ intent' = "create"
    /\ now' = today
    /\ LET text == Strip(message_text)
           extracted == extract_event_details(text)
           times == resolve_time(Lower(text), today)
       IN /\ details' = extracted
          /\ IF extracted.raised # "none"
             THEN /\ raised' = extracted.raised
                  /\ pc' = "except"
                  /\ UNCHANGED calls
             ELSE IF times.raised # "none"
             THEN /\ raised' = times.raised
                  /\ pc' = "except"
                  /\ UNCHANGED calls
             ELSE /\ calls' = Append(calls, AddEventRequest(extracted.title,
                                                            extracted.location,
                                                            times.start_time,
                                                            times.end_time))
                  /\ pc' = "create_wait"
                  /\ UNCHANGED raised
    /\ UNCHANGED <<message_text, resps, replies, propagated, matched_event>>

\* lines 400-419
CreateReply(response, sent) ==
    /\ pc = "create_wait"
    /\ resps' = Append(resps, response)
    /\ Conclude(schedule_reply(response, calls[Len(calls)]), sent)
    /\ UNCHANGED <<message_text, intent, calls, propagated, now, details, matched_event>>

\* lines 421-424: the generic failure reply, by a bare reply_text whose own
\* exception leaves handle_message
ExceptReply(sent) ==
    /\ pc = "except"
    /\ replies' = Append(replies,
                         [via |-> "handle_message",
                          msg |-> Reply("Error processing request. Please try again.",
                                        <<>>, <<>>, <<>>),
                          sent |-> sent])
    /\ propagated' = ~sent
    /\ pc' = IF sent THEN "done" ELSE "error_handler"
    /\ UNCHANGED <<message_text, intent, calls, resps, raised, now, details,
                   matched_event>>

\* error_handler (lines 44-48), registered at line 445 for the exceptions
\* that leave a handler
ErrorHandler(sent) ==
    /\ pc = "error_handler"
    /\ replies' = Append(replies,
                         [via |-> "error_handler",
                          msg |-> Reply("An error occurred. Please try again.",
                                        <<>>, <<>>, <<>>),
                          sent |-> sent])
    /\ pc' = "done"
    /\ UNCHANGED <<message_text, intent, calls, resps, raised, propagated, now,
                   details, matched_event>>

\* the handling is over; nothing of it is kept for the next message
Finish ==
    /\ pc = "done"
    /\ pc' = "idle"
    /\ message_text' = <<>>
    /\ intent' = "none"
    /\ calls' = <<>>
    /\ resps' = <<>>
    /\ replies' = <<>>
    /\ raised' = "none"
    /\ propagated' = FALSE
    /\ now' = 0
    /\ details' = NoDetails
    /\ matched_event' = NoEvent

Next ==
    \/ \E text \in Texts : ReceiveMessage(text)
    \/ ResearchPost
    \/ \E response \in ServiceResponses, sent \in BOOLEAN : ResearchReply(response, sent)
    \/ DeleteByIdPost
    \/ \E response \in ServiceResponses, sent \in BOOLEAN : DeleteByIdReply(response, sent)
    \/ DeleteByTitleList
    \/ \E response \in ListResponses, sent \in BOOLEAN : DeleteByTitleMatch(response, sent)
    \/ \E response \in ServiceResponses, sent \in BOOLEAN : DeleteByTitleReply(response, sent)
    \/ ListEventsPost
    \/ \E response \in ListResponses, sent \in BOOLEAN : ListEventsReply(response, sent)
    \/ \E today \in Nows : CreatePost(today)
    \/ \E response \in ServiceResponses, sent \in BOOLEAN : CreateReply(response, sent)
    \/ \E sent \in BOOLEAN : ExceptReply(sent)
    \/ \E sent \in BOOLEAN : ErrorHandler(sent)
    \/ Finish

Spec == Init /\ [][Next]_vars

(***************************************************************************)
(* What the specification says of a text, written from its words (case is  *)
(* ignored in every comparison) and not from the code.                     *)
(***************************************************************************)
\* frag occurs in s when letter case is ignored
OccursIgnoringCase(frag, s) ==
    \E i \in 0..(Len(s) - Len(frag)) :
        \A j \in 1..Len(frag) : LowerChar(s[i + j]) = LowerChar(frag[j])

\* s starts with p when letter case is ignored
StartsIgnoringCase(s, p) ==
    Len(s) >= Len(p) /\ \A j \in 1..Len(p) : LowerChar(s[j]) = LowerChar(p[j])

HasDeletePrefix(text) ==
    \E k \in 1..Len(delete_prefixes) : StartsIgnoringCase(text, delete_prefixes[k])

HasResearchPrefix(text) ==
    \E p \in {kw_research_market, kw_research_recipe, kw_research_holiday,
              kw_research_restaurant} : StartsIgnoringCase(text, p)

IsListCommand(text) ==
    Len(text) = Len(kw_list_events) /\ StartsIgnoringCase(text, kw_list_events)

\* the positions of the listed events whose summary contains the title
MatchingPositions(events, title) ==
    {i \in 1..Len(events) : OccursIgnoringCase(title, events[i].summary)}

\* the requests of the handling with the given action
CallsOf(action) == {k \in 1..Len(calls) : calls[k].action = action}

LastResponse == resps[Len(resps)]

\* the last downstream answer has a status other than 200
AnsweredNon200 ==
    /\ pc = "done"
    /\ resps # <<>>
    /\ LastResponse.net
    /\ LastResponse.status_code # 200

(***************************************************************************)
(* C1.  Original statement: handling one inbound message makes at most one *)
(* outbound HTTP call to a downstream service, delete-by-title included.   *)
(***************************************************************************)
C1_AtMostOneCall == Len(calls) <= 1

\* C1, amended: a handling makes at most one downstream call, except a
\* delete-by-title whose listing holds exactly one matching event, which
\* makes two: list_events, then delete_event.
C1_AtMostOneCallExceptTitleDelete ==
    /\ Len(calls) <= 2
    /\ Len(calls) = 2 =>
          /\ intent = "delete_title"
          /\ calls[1].action = "list_events"
          /\ calls[2].action = "delete_event"
          /\ Cardinality(MatchingPositions(resps[1].events,
                                           CalendarCommand(message_text).arg)) = 1

\* a delete-by-title was handled to its end with two downstream calls
C1_TwoCallsMade == pc = "done" /\ intent = "delete_title" /\ Len(calls) = 2

(***************************************************************************)
(* C2.  Any exception raised while handling a message is caught at the top *)
(* of handle_message and turned into exactly one generic failure reply; no *)
(* exception leaves handle_message, whatever the reply call does.          *)
(***************************************************************************)
C2_NoExceptionLeavesHandler ==
    /\ ~propagated
    /\ (raised # "none" /\ pc \notin {"except"}) =>
          /\ Len(replies) = 1
          /\ replies[1].msg.tmpl = "Error processing request. Please try again."

C4_ClassificationTotal ==
    pc = "done" =>
        /\ intent \in {"delete_id", "delete_title", "list", "research", "create"}
        /\ (/\ ~HasDeletePrefix(message_text)
            /\ ~IsListCommand(message_text)
            /\ ~HasResearchPrefix(message_text)) =>
               /\ intent = "create"
               /\ CallsOf("add_event") # {}

(***************************************************************************)
(* C5.  For every text that starts (case ignored) with 'delete ',          *)
(* 'cancel ' or 'remove ': when the remainder starts with 'id:' (case      *)
(* ignored) the message is a delete-by-id of the trimmed text after 'id:'; *)
(* otherwise it is a delete-by-title with the remainder as the title.      *)
(***************************************************************************)
C5_DeleteCommand ==
    (pc = "done" /\ HasDeletePrefix(message_text)) =>
        LET remainder == Strip(From(message_text, Len(kw_delete)))
        IN IF StartsIgnoringCase(remainder, kw_id)
           THEN /\ intent = "delete_id"
                /\ calls[1] = DeleteEventRequest(Strip(From(remainder, Len(kw_id))))
           ELSE /\ intent = "delete_title"
                /\ calls[1] = ListEventsRequest
                /\ CalendarCommand(message_text).arg = remainder

(***************************************************************************)
(* C6.  extract_event_details: when one of the markers 'venue at ',        *)
(* 'location at ', ' at ' occurs in the text (case ignored, tried in that  *)
(* order), the original text is split at the first occurrence of the first *)
(* such marker, title is the trimmed part before it with a trailing comma  *)
(* stripped and location the trimmed part after it; with no marker, title  *)
(* is the text and location is empty.  The call returns a pair for every   *)
(* text, whatever the letter case of the marker.                           *)
(***************************************************************************)
C6_ExtractEventDetails ==
    intent = "create" =>
        LET text == Strip(message_text)
            hit == {k \in 1..Len(location_markers) :
                      OccursIgnoringCase(location_markers[k], text)}
            marker == location_markers[MinOf(hit)]
            at == MinOf({i \in 1..Len(text) :
                           StartsIgnoringCase(From(text, i - 1), marker)})
        IN IF hit = {}
           THEN details = [raised |-> "none", title |-> text, location |-> <<>>]
           ELSE details =
                  [raised |-> "none",
                   title |-> RStripChars(Strip(SubSeq(text, 1, at - 1)), {","}),
                   location |-> Strip(From(text, at - 1 + Len(marker)))]

(***************************************************************************)
(* C7.  Every message handled as create-event yields an add_event request  *)
(* whose start time is strictly after the current time in the Singapore    *)
(* zone, for every text, whatever the digits of its 'tomorrow at' phrase.  *)
(* (Stated of the texts whose details were extracted; C6 is about the      *)
(* others.)                                                                *)
(***************************************************************************)
C7_StartAfterNow ==
    (pc = "done" /\ intent = "create" /\ details.raised = "none") =>
        \E k \in CallsOf("add_event") : calls[k].startDate.t > now

(***************************************************************************)
(* C8.  Time resolution: when the text contains 'tomorrow at <hour>        *)
(* [:<minute>] [am|pm]', start is tomorrow's date at the converted hour    *)
(* (hour + 12 when pm and hour is not 12; 0 when am and hour is 12; the    *)
(* hour otherwise) and the given minute (0 when absent); otherwise start   *)
(* is tomorrow at 14:00.  End is start plus one hour.  (Stated of the      *)
(* texts whose details were extracted; C6 is about the others.)            *)
(***************************************************************************)
C8_TimeResolution ==
    (pc = "done" /\ intent = "create" /\ details.raised = "none") =>
        LET phrase == time_match(Lower(message_text))
            hour == IF ~phrase.found THEN 14
                    ELSE IF phrase.period = "pm" /\ phrase.hour # 12 THEN phrase.hour + 12
                    ELSE IF phrase.period = "am" /\ phrase.hour = 12 THEN 0
                    ELSE phrase.hour
            start == ((now \div 86400) + 1) * 86400 + hour * 3600 + phrase.minute * 60
        IN \E k \in CallsOf("add_event") :
              /\ calls[k].startDate = [valid |-> TRUE, t |-> start]
              /\ calls[k].endDate = [valid |-> TRUE, t |-> start + 3600]

(***************************************************************************)
(* C9.  Every handled inbound message results in exactly one reply attempt *)
(* to the sender on every path: never zero and never two.  (Stated of the  *)
(* handlings that C6 and C7 are not about: no IndexError, no ValueError.)  *)
(***************************************************************************)
C9_ExactlyOneReplyAttempt ==
    (pc = "done" /\ raised \notin {"IndexError", "ValueError"}) => Len(replies) = 1

(***************************************************************************)
(* C10.  Delete-by-title sends a delete_event request only when exactly    *)
(* one of the listed events has a summary containing the title (case       *)
(* ignored), and then for that event's id; with no match or several, no    *)
(* delete_event request is sent, and with several the reply enumerates     *)
(* every match with its id, title and time and asks to delete by id.       *)
(***************************************************************************)
C10_DeleteByTitle ==
    (intent = "delete_title" /\ resps # <<>>) =>
        LET events == resps[1].events
            matching == MatchingPositions(events, CalendarCommand(message_text).arg)
        IN /\ \A k \in CallsOf("delete_event") :
                 /\ resps[1].net /\ resps[1].status_code = 200
                 /\ Cardinality(matching) = 1
                 /\ \E i \in matching : calls[k].eventId = events[i].id
           /\ (pc = "done" /\ Cardinality(matching) > 1) =>
                 /\ CallsOf("delete_event") = {}
                 /\ Len(replies) = 1
                 /\ replies[1].msg.tmpl = "Multiple matches found. Please delete by ID:"
                 /\ Len(replies[1].msg.items) = Cardinality(matching)
                 /\ \A i \in matching :
                       \E j \in 1..Len(replies[1].msg.items) :
                           replies[1].msg.items[j] =
                               [id |-> events[i].id, title |-> events[i].summary,
                                time |-> format_event_time(start_string(events[i]))]

\* the one matching event of a listing of two was deleted
C10_OneOfTwoDeleted ==
    /\ intent = "delete_title"
    /\ CallsOf("delete_event") # {}
    /\ Len(resps[1].events) = 2
    /\ pc = "done"

====
